---- MODULE Spec2Model ----
(***************************************************************************)
(* Model of the two programs of the repository:                            *)
(*   git_manager_gui.py       GitManagerApp: single-flight git chains      *)
(*   supplier_dashboardv2.py  SupplierApp / SyncWorker / DataAccess        *)
(* A behaviour is a run of one of the two programs (variable app).         *)
(***************************************************************************)
EXTENDS Integers, Sequences, FiniteSets, TLC

\* ---------------------------------------------------------------- bounds
MaxChain == 2        \* longest command chain a request submits
MaxRequests == 2     \* chains run_git_chain admits per behaviour
MaxRows == 2         \* rows of the store upsert_supplier is applied to
MaxApply == 2        \* applications of upsert_supplier to one record
MaxClock == 1        \* latest reading of the clock (seconds)
MaxProducts == 2     \* records of the remote products collection
MaxOrders == 1       \* records of the remote orders collection
ServerPageSize == 1  \* records the remote API returns per page
MaxSyncRequests == 2 \* _start_sync calls per behaviour
MaxMerge == 2        \* records of each collection fetch_suppliers_merged is applied to
BulkProducts == 51   \* products of the large remote collection
MaxRest == 4         \* characters after the status prefix of a porcelain line
MaxLine == 5         \* pieces of an enumerated branch line
MaxTableRows == 11   \* rows of the largest store the table view pages
MaxStoreOps == 2     \* edits and sync runs while the table view is open

\* what safe_run returns for one command: <<stdout non-empty, stderr non-empty,
\* returncode>>; <<FALSE, TRUE, 1>> is also the result of a failed spawn
StepResults == {<<TRUE, FALSE, 0>>, <<FALSE, FALSE, 0>>,
                <<FALSE, TRUE, 1>>, <<TRUE, TRUE, 1>>}

\* `except Exception as e: return "", str(e), 1`: what safe_run returns
\* when the process cannot be spawned
SpawnFailure == <<FALSE, TRUE, 1>>

VARIABLES
    app,            \* "git" or "sync": which program is running
    running_task,   \* GitManagerApp.running_task
    result_queue,   \* GitManagerApp.result_queue
    gitThreads,     \* the live worker threads started by run_git_chain
    finished,       \* the worker thread that ended last: its history fields
    pollTimers,     \* pending master.after(60, _poll_results) callbacks
    console,        \* the text the last _log call wrote
    status_left,    \* text of the status label (_set_status)
    refreshes,      \* number of refresh_all calls made by _poll_results
    drained,        \* the outcome _poll_results took last from result_queue
    admitted,       \* requests that passed the guard
    drains          \* outcomes taken from result_queue

gitVars == <<running_task, result_queue, gitThreads, finished, pollTimers,
             console, status_left, refreshes, drained, admitted, drains>>

VARIABLES
    now,            \* the last reading of dt.datetime.utcnow(), in seconds
    u_rec,          \* upsert_supplier applied alone: the merged record s
    u_rows,         \* ... the rows before the first and after each application
    u_res,          \* ... what each application did: raised, hit, t_upd
    m_in,           \* fetch_suppliers_merged applied alone: the fetched lists
    m_out,          \* ... the list it returned, once it has
    f_in,           \* a parser applied alone: its argument
    f_out,          \* ... what the call did, once it has
    store,          \* the table view alone: the committed rows of suppliers
    view,           \* ... TableView's q, page_size, page_index, sort_col, sort_dir
    shown,          \* ... what the last two refresh_table calls queried and got
    edits           \* ... the edits and sync runs so far

tableVars == <<store, view, shown, edits>>

upsertVars == <<u_rec, u_rows, u_res, m_in, m_out, f_in, f_out, tableVars>>

VARIABLES
    remote,         \* the collections the remote API lists
    db,             \* the committed rows of table suppliers (suppliers.db)
    sync_worker,    \* SupplierApp.sync_worker: tid of the thread, 0 for None
    syncThreads,    \* the live SyncWorker threads
    syncFinished,   \* the SyncWorker that ended since the last start: its history
    progress_queue, \* SupplierApp.progress_queue
    panel,          \* what LeftPanel shows: start, status, progress, done, error
    dialog,         \* the last messagebox shown
    table_refreshes,\* TableView.refresh_table calls made for "done" events
    handled,        \* events passed to _handle_progress_message so far
    syncs,          \* SyncWorker threads started so far
    syncRequests    \* _start_sync calls so far

syncVars == <<remote, db, sync_worker, syncThreads, syncFinished, progress_queue,
              panel, dialog, table_refreshes, handled, syncs, syncRequests>>

vars == <<app, gitVars, now, upsertVars, syncVars>>

\* ------------------------------------------------------------- helpers
Range(s) == {s[k] : k \in 1..Len(s)}

\* all sequences over S of length lo..hi
SeqsOf(S, lo, hi) == UNION {[1..n -> S] : n \in lo..hi}

\* s without its t-th element
RemoveAt(s, t) == SubSeq(s, 1, t - 1) \o SubSeq(s, t + 1, Len(s))

\* ------------------------------------------------- git manager: worker
\* the chains callers submit: one to MaxChain commands
\* (a command is identified by a number standing for its argument list)
Chains == {[k \in 1..n |-> k] : n \in 1..MaxChain}

\* threading.Thread(target=worker): the closure's locals at thread start
NewGitThread_alwaysRefresh(commands, refresh) ==
    [commands |-> commands, refresh |-> TRUE, i |-> 1,
     full_log |-> <<>>, final_rc |-> 0, ran |-> <<>>,
     pc |-> IF Len(commands) = 0 THEN "put" ELSE "run"]

NewGitThread(commands, refresh) ==
    [commands |-> commands, refresh |-> refresh, i |-> 1,
     full_log |-> <<>>, final_rc |-> 0, ran |-> <<>>,
     pc |-> IF Len(commands) = 0 THEN "put" ELSE "run"]

LogEntry_noEcho(cmd, out, err) ==
    (IF out THEN <<<<"out", cmd>>>> ELSE <<>>)
      \o (IF err THEN <<<<"err", cmd>>>> ELSE <<>>)

\* full_log += "\n$ cmd\n" ; if out: += out ; if err: += err
LogEntry(cmd, out, err) ==
    <<<<"$", cmd>>>>
      \o (IF out THEN <<<<"out", cmd>>>> ELSE <<>>)
      \o (IF err THEN <<<<"err", cmd>>>> ELSE <<>>)

ChainBreaks_never(rc) == FALSE

\* `if rc != 0: break`
ChainBreaks(rc) == rc # 0

\* one iteration of `for args in commands`: safe_run returns (out, err, rc);
\* ran is the history of the steps executed, <<step, rc>>
GitWorkerStep(t) ==
    /\ app = "git"
    /\ t \in 1..Len(gitThreads)
    /\ gitThreads[t].pc = "run"
    /\ \E res \in StepResults :
         LET th == gitThreads[t]
             out == res[1]
             err == res[2]
             rc == res[3]
             last == ChainBreaks(rc) \/ th.i = Len(th.commands)
         IN gitThreads' = [gitThreads EXCEPT ![t] =
                [th EXCEPT !.full_log = @ \o LogEntry(th.commands[th.i], out, err),
                           !.final_rc = rc,
                           !.ran = Append(@, <<th.i, rc>>),
                           !.i = IF last THEN @ ELSE @ + 1,
                           !.pc = IF last THEN "put" ELSE "run"]]
    /\ UNCHANGED <<app, running_task, result_queue, finished, pollTimers,
                   console, status_left, refreshes, drained, admitted, drains,
                   now, upsertVars, syncVars>>

\* self.result_queue.put((full_log, final_rc, refresh)); the thread ends
GitWorkerPut(t) ==
    /\ app = "git"
    /\ t \in 1..Len(gitThreads)
    /\ gitThreads[t].pc = "put"
    /\ result_queue' = Append(result_queue,
                              [full_log |-> gitThreads[t].full_log,
                               rc |-> gitThreads[t].final_rc,
                               refresh |-> gitThreads[t].refresh])
    /\ finished' = <<[commands |-> gitThreads[t].commands,
                       ran |-> gitThreads[t].ran,
                       final_rc |-> gitThreads[t].final_rc]>>
    /\ gitThreads' = RemoveAt(gitThreads, t)
    /\ UNCHANGED <<app, running_task, pollTimers, console, status_left,
                   refreshes, drained, admitted, drains, now,
                   upsertVars, syncVars>>

\* --------------------------------------------- git manager: controller
GuardBusy_never == FALSE

\* `if self.running_task:` the single-flight guard
GuardBusy == running_task

\* run_git_chain(commands, cwd, label, refresh); cwd_ok is
\* `not cwd or os.path.isdir(cwd)`
RunGitChain(commands, cwd_ok, refresh) ==
    /\ app = "git"
    /\ (cwd_ok /\ ~GuardBusy) => admitted < MaxRequests
    /\ IF ~cwd_ok
       THEN /\ console' = <<"ERROR: Invalid repository path", <<>>>>
            /\ UNCHANGED <<running_task, gitThreads, pollTimers, status_left,
                           admitted>>
       ELSE IF GuardBusy
       THEN /\ console' = <<"Another operation is still running", <<>>>>
            /\ UNCHANGED <<running_task, gitThreads, pollTimers, status_left,
                           admitted>>
       ELSE /\ running_task' = TRUE
            /\ status_left' = "label"
            /\ gitThreads' = Append(gitThreads, NewGitThread(commands, refresh))
            /\ pollTimers' = pollTimers + 1
            /\ admitted' = admitted + 1
            /\ UNCHANGED console
    /\ UNCHANGED <<app, result_queue, finished, refreshes, drained, drains,
                   now, upsertVars, syncVars>>

\* refresh_all called with a valid path: safe_run for `git status -sb`,
\* `git branch --list`, `git status --porcelain`, and load_log's `git log`
RefreshAllRuns == 4

\* external processes _poll_results has run and waited for on the UI thread
UiProcessRuns == refreshes * RefreshAllRuns

RescheduleOnEmpty_never == FALSE

\* `except queue.Empty: self.master.after(60, self._poll_results)`: the
\* callback is scheduled again when the queue was empty
RescheduleOnEmpty == TRUE

\* _poll_results: one timer callback
PollResults ==
    /\ app = "git"
    /\ pollTimers > 0
    /\ IF result_queue # <<>>
       THEN LET o == Head(result_queue)
            IN /\ result_queue' = Tail(result_queue)
               /\ running_task' = FALSE
               /\ console' = <<"transcript", o.full_log>>
               /\ status_left' = IF o.rc = 0 THEN "Done (OK)" ELSE "Done (Error)"
               /\ refreshes' = IF o.refresh THEN refreshes + 1 ELSE refreshes
               /\ drained' = <<o>>
               /\ drains' = drains + 1
               /\ pollTimers' = pollTimers - 1
       ELSE /\ pollTimers' = (pollTimers - 1)
                                + (IF RescheduleOnEmpty THEN 1 ELSE 0)
            /\ UNCHANGED <<result_queue, running_task, console, status_left,
                           refreshes, drained, drains>>
    /\ UNCHANGED <<app, gitThreads, finished, admitted, now,
                   upsertVars, syncVars>>

\* ------------------------------------------------ supplier store: rows
\* SQL NULL / Python None; a present value v is <<v>>
NULL == <<>>
Some(v) == <<v>>

\* Python truthiness of a str-or-None value: None and "" are false
Truthy(x) == x # NULL /\ x # Some("")

\* SQL IFNULL(x, d)
IfNull(x, d) == IF x = NULL THEN d ELSE x[1]

\* a row of table suppliers; country stands for the columns that are neither
\* keys nor timestamps (sap_id, status, ..., postcode)
Row(id, name, account_id, external_id, country, created_at, updated_at) ==
    [id |-> id, name |-> name, account_id |-> account_id,
     external_id |-> external_id, country |-> country,
     created_at |-> created_at, updated_at |-> updated_at]

\* the keys of dict `fields` built by upsert_supplier (lines 255-274)
FieldKeys == {"name", "account_id", "external_id", "country", "updated_at"}

\* `fields["created_at"] = ...; cols = fields.keys() | {"created_at"}`
InsertCols == (FieldKeys \cup {"created_at"}) \cup {"created_at"}

\* `qmarks = ["?"] * (len(fields) + 1)`, and as many bound values
InsertValues == Cardinality(FieldKeys \cup {"created_at"}) + 1

\* sqlite3 rejects an INSERT whose column list and VALUES list differ in
\* length (OperationalError: N values for M columns)
InsertAccepted == Cardinality(InsertCols) = InsertValues

\* SELECT id FROM suppliers WHERE account_id = ?
SelectByAccount(rows, acc) ==
    {k \in 1..Len(rows) : acc # NULL /\ rows[k].account_id = acc}

\* SELECT id FROM suppliers WHERE name = ? AND
\*        IFNULL(external_id, -1) = IFNULL(?, -1)
SelectByNameExt(rows, name, ext) ==
    {k \in 1..Len(rows) :
        /\ name # NULL
        /\ rows[k].name = name
        /\ IfNull(rows[k].external_id, -1) = IfNull(ext, -1)}

\* `if fields["account_id"]:` chooses the statement that looks for the row
Candidates(rows, s) ==
    IF Truthy(s.account_id)
    THEN SelectByAccount(rows, s.account_id)
    ELSE SelectByNameExt(rows, s.name, s.external_id)

\* UPDATE suppliers SET <every key of fields> WHERE id = existing[0]
UpdateRow(rows, k, s, t_upd) ==
    [rows EXCEPT ![k] = [@ EXCEPT !.name = s.name,
                                  !.account_id = s.account_id,
                                  !.external_id = s.external_id,
                                  !.country = s.country,
                                  !.updated_at = t_upd]]

\* INSERT INTO suppliers (...) VALUES (...): AUTOINCREMENT id, no row is
\* ever deleted
InsertRow(rows, s, t_upd, t_cre) ==
    Append(rows, Row(Len(rows) + 1, s.name, s.account_id, s.external_id,
                     s.country, t_cre, t_upd))

\* DataAccess.upsert_supplier(conn, s) on the rows its connection sees.
\* t_upd and t_cre are the two readings of utcnow() (lines 273 and 284/298).
\* The results: the rows afterwards, whether the call raised, the index of
\* the row fetchone() returned (0: none).  fetchone() returns some matching
\* row: the statement has no ORDER BY.
UpsertResults(rows, s, t_upd, t_cre) ==
    IF Candidates(rows, s) # {}
    THEN {[rows |-> UpdateRow(rows, k, s, t_upd), raised |-> FALSE, hit |-> k] :
             k \in Candidates(rows, s)}
    ELSE IF InsertAccepted
         THEN {[rows |-> InsertRow(rows, s, t_upd, t_cre), raised |-> FALSE,
                hit |-> 0]}
         ELSE {[rows |-> rows, raised |-> TRUE, hit |-> 0]}

\* utcnow() read after a reading of t: the clock does not go back, and two
\* readings may fall in the same second
ClockAfter(t) == {c \in {t, t + 1} : c <= MaxClock}

\* ------------------------------------- upsert_supplier applied on its own
\* the values the columns of a stored row take; -1 and NULL are both
\* possible external ids (EditDialog._save stores int(v) or None)
RowNames == {Some("acme"), Some("globex")}
RowAccounts == {Some("A1"), Some("A2"), NULL}
RowExternalIds == {Some(7), Some(-1), NULL}

StoreRows(n) ==
    {[k \in 1..n |-> Row(k, f[k][1], f[k][2], f[k][3], Some("AU"), 0, 0)] :
        f \in [1..n -> RowNames \X RowAccounts \X RowExternalIds]}

Stores == UNION {StoreRows(n) : n \in 0..MaxRows}

\* the merged records upsert_supplier is given
MergedRecords ==
    [name : {Some("acme"), NULL},
     account_id : {Some("A1"), Some(""), NULL},
     external_id : {Some(7), NULL},
     country : {Some("NZ")}]

Last(s) == s[Len(s)]

\* da.upsert_supplier(conn, s) on the current rows
ApplyUpsert ==
    /\ app = "upsert"
    /\ Len(u_res) < MaxApply
    /\ \E t_upd \in ClockAfter(now) :
       \E t_cre \in ClockAfter(t_upd) :
       \E r \in UpsertResults(Last(u_rows), u_rec, t_upd, t_cre) :
          /\ u_rows' = Append(u_rows, r.rows)
          /\ u_res' = Append(u_res, [raised |-> r.raised, hit |-> r.hit,
                                     t_upd |-> t_upd])
          /\ now' = IF r.hit = 0 THEN t_cre ELSE t_upd
    /\ UNCHANGED <<app, gitVars, u_rec, m_in, m_out, f_in, f_out, tableVars,
                   syncVars>>

\* ------------------------------------------- supplier dashboard: data
\* seed_demo_if_empty: the rows of a fresh suppliers.db
SeedRows ==
    << Row(1, Some("360 International"), Some("301382"), Some(8480), Some("AU"), 0, 0),
       Row(2, Some("3D Printers Online"), Some("301173"), Some(5160), Some("GB"), 0, 0),
       Row(3, Some("ACME Tools"), Some("400111"), Some(9001), Some("AU"), 0, 0),
       Row(4, Some("Global Home"), Some("500222"), Some(9011), Some("NZ"), 0, 0) >>

\* the remote collections: what GET API_URL_PRODUCTS / API_URL_ORDERS list.
\* The first product and the first order belong to seeded suppliers, the
\* others do not.
AllProducts ==
    << [account_id |-> Some("301382"), name |-> Some("360 International"),
        country |-> Some("AU")],
       [account_id |-> Some("900001"), name |-> Some("New Vendor"),
        country |-> Some("NZ")],
       [account_id |-> NULL, name |-> Some("ACME Tools"), country |-> Some("AU")],
       [account_id |-> Some("500222"), name |-> Some("Global Home"),
        country |-> Some("NZ")] >>

AllOrders ==
    << [account_id |-> Some("301173"), name |-> Some("3d printers online"),
        id |-> Some(5160)],
       [account_id |-> Some("900001"), name |-> Some("new vendor"),
        id |-> Some(77)],
       [account_id |-> NULL, name |-> Some("acme tools"), id |-> Some(9001)],
       [account_id |-> Some("500222"), name |-> Some("Global Home"),
        id |-> Some(9011)] >>

\* a large remote, served in pages that hold a whole collection: many
\* products of one seeded supplier followed by one product of another
\* seeded supplier, and one order of a supplier the store does not hold
BulkRemote ==
    [products |-> [k \in 1..BulkProducts |->
                      IF k < BulkProducts THEN AllProducts[1] ELSE AllProducts[4]],
     orders |-> <<AllOrders[2]>>,
     page_size |-> BulkProducts]

Remotes ==
    {[products |-> SubSeq(AllProducts, 1, np), orders |-> SubSeq(AllOrders, 1, no),
      page_size |-> ServerPageSize] :
        np \in 0..MaxProducts, no \in 0..MaxOrders}

\* str.lower() on the names above
Lower(n) ==
    CASE n = "360 International" -> "360 international"
      [] n = "3D Printers Online" -> "3d printers online"
      [] n = "New Vendor" -> "new vendor"
      [] n = "ACME Tools" -> "acme tools"
      [] n = "Global Home" -> "global home"
      [] n = "Acme" -> "acme"
      [] OTHER -> n

Max(S) == CHOOSE m \in S : \A x \in S : x <= m

\* a or b
PyOr(a, b) == IF Truthy(a) THEN a ELSE b

\* ---------------------------------- ApiClient.fetch_suppliers_merged
\* ord_by_acc[acc]: the last order stored under acc (None is a key as well);
\* 0 when the key is absent
OrdByAcc(orders, acc) ==
    LET S == {k \in 1..Len(orders) : orders[k].account_id = acc}
    IN IF S = {} THEN 0 ELSE Max(S)

\* ord_by_name[lname]: the last order with a name whose lower() is lname
OrdByName(orders, lname) ==
    LET S == {k \in 1..Len(orders) :
                 Truthy(orders[k].name) /\ Lower(orders[k].name[1]) = lname}
    IN IF S = {} THEN 0 ELSE Max(S)

\* o = ord_by_acc.get(acc) or (ord_by_name.get(nm.lower()) if nm else None)
MatchOf(orders, p) ==
    IF OrdByAcc(orders, p.account_id) # 0
    THEN OrdByAcc(orders, p.account_id)
    ELSE IF Truthy(p.name) THEN OrdByName(orders, Lower(p.name[1])) ELSE 0

\* the record appended for product p (lines 531-549)
MergedOf(orders, p) ==
    LET m == MatchOf(orders, p)
    IN [name |-> PyOr(p.name, IF m # 0 THEN orders[m].name ELSE NULL),
        account_id |-> PyOr(p.account_id,
                            IF m # 0 THEN orders[m].account_id ELSE NULL),
        external_id |-> IF m # 0 THEN orders[m].id ELSE NULL,
        country |-> p.country]

\* the record appended for an order whose account is not in seen_acc
OrderOnly(o) ==
    [name |-> o.name, account_id |-> o.account_id, external_id |-> o.id,
     country |-> NULL]

\* the list fetch_suppliers_merged returns for the fetched collections
Merge(products, orders) ==
    LET first == [k \in 1..Len(products) |-> MergedOf(orders, products[k])]
        seen_acc == {first[k].account_id :
                        k \in {j \in 1..Len(first) : Truthy(first[j].account_id)}}
        unseen(o) == Truthy(o.account_id) /\ o.account_id \notin seen_acc
        extra == SelectSeq(orders, unseen)
    IN first \o [k \in 1..Len(extra) |-> OrderOnly(extra[k])]

\* ------------------------------------------------ SyncWorker (thread)
Ev(typ, text, i, total) == [typ |-> typ, text |-> text, i |-> i, total |-> total]

IsTerminal(e) == e.typ \in {"done", "error"}

\* SyncWorker(DB_FILE, api_auth, progress_queue).start()
NewSyncThread(tid) ==
    [tid |-> tid, pc |-> "start", url |-> 0,
     products |-> <<>>, orders |-> <<>>, merged |-> <<>>, i |-> 0,
     txn |-> <<>>, pub |-> <<>>,
     fetch_failed |-> FALSE, upserts |-> 0, commits |-> 0]

\* the page the API serves for the k-th request of a collection
PageOf(coll, k) ==
    SubSeq(coll, (k - 1) * remote.page_size + 1,
           IF k * remote.page_size < Len(coll) THEN k * remote.page_size
           ELSE Len(coll))

\* payload.get("next"): the following page, 0 for None
NextOf(coll, k) == IF k * remote.page_size < Len(coll) THEN k + 1 ELSE 0

\* _push(msg) by thread t: queue.put_nowait; pub is the thread's history
Push(th, evs) == [th EXCEPT !.pub = @ \o evs]

SyncStep_dropsEvents(t, th2, evs) ==
    /\ syncThreads' = [syncThreads EXCEPT ![t] = Push(th2, evs)]
    /\ progress_queue' = progress_queue

SyncStep(t, th2, evs) ==
    /\ syncThreads' = [syncThreads EXCEPT ![t] = Push(th2, evs)]
    /\ progress_queue' = progress_queue \o evs

\* run(): `_push(("status", "Sync started..."))`, sqlite3.connect, ApiClient()
SyncRunStart(t) ==
    /\ app = "sync"
    /\ t \in 1..Len(syncThreads)
    /\ syncThreads[t].pc = "start"
    /\ SyncStep(t, [syncThreads[t] EXCEPT !.pc = "fetch_products", !.url = 1],
                <<Ev("status", "Sync started...", 0, 0)>>)
    /\ UNCHANGED <<app, gitVars, now, upsertVars, remote, db, sync_worker, syncFinished,
                   panel, dialog, table_refreshes, handled, syncs, syncRequests>>

\* `except requests.RequestException: return {}`
PageFailureRaises == FALSE

\* one iteration of `while url:` in _fetch_all_paginated: _http_get_json(url)
\* answers (ok) or fails; a failed request yields the payload {}
SyncFetchPage(t) ==
    /\ app = "sync"
    /\ t \in 1..Len(syncThreads)
    /\ syncThreads[t].pc \in {"fetch_products", "fetch_orders"}
    /\ \E ok \in BOOLEAN :
         LET th == syncThreads[t]
             prod == th.pc = "fetch_products"
             coll == IF prod THEN remote.products ELSE remote.orders
             got == IF ok THEN PageOf(coll, th.url) ELSE <<>>
             nxt == IF ok THEN NextOf(coll, th.url) ELSE 0
             th1 == [th EXCEPT !.products = IF prod THEN @ \o got ELSE @,
                               !.orders = IF prod THEN @ ELSE @ \o got,
                               !.fetch_failed = @ \/ ~ok]
         IN IF ~ok /\ PageFailureRaises
            THEN SyncStep(t, [th1 EXCEPT !.pc = "except"], <<>>)
            ELSE IF nxt # 0
            THEN SyncStep(t, [th1 EXCEPT !.url = nxt], <<>>)
            ELSE IF prod
            THEN SyncStep(t, [th1 EXCEPT !.pc = "fetch_orders", !.url = 1], <<>>)
            ELSE SyncStep(t, [th1 EXCEPT !.pc = "merge", !.url = 0], <<>>)
    /\ UNCHANGED <<app, gitVars, now, upsertVars, remote, db, sync_worker, syncFinished,
                   panel, dialog, table_refreshes, handled, syncs, syncRequests>>

\* the rest of fetch_suppliers_merged, `total = len(merged)`,
\* `_push(("status", "Fetched ..."))`, DataAccess(self.db_path)
SyncMerge(t) ==
    /\ app = "sync"
    /\ t \in 1..Len(syncThreads)
    /\ syncThreads[t].pc = "merge"
    /\ LET th == syncThreads[t]
           m == Merge(th.products, th.orders)
       IN SyncStep(t, [th EXCEPT !.merged = m, !.i = 1,
                                 !.pc = IF Len(m) = 0 THEN "commit" ELSE "upsert"],
                   <<Ev("status", "Fetched", 0, Len(m))>>)
    /\ UNCHANGED <<app, gitVars, now, upsertVars, remote, db, sync_worker, syncFinished,
                   panel, dialog, table_refreshes, handled, syncs, syncRequests>>

\* `if i % 50 == 0 or i == total:`
ProgressEvery == 50

BatchEnds_noLast(i, total) == i % ProgressEvery = 0

BatchEnds_always(i, total) == TRUE

BatchEnds(i, total) == i % ProgressEvery = 0 \/ i = total

\* one iteration of `for i, item in enumerate(merged, start=1)`:
\* upsert_supplier on the thread's connection, then commit and progress at
\* the end of a batch.  A statement fails when another connection holds
\* the write lock (database is locked) or when sqlite3 rejects it.
SyncUpsertStep(t) ==
    /\ app = "sync"
    /\ t \in 1..Len(syncThreads)
    /\ syncThreads[t].pc = "upsert"
    /\ \E t_upd \in ClockAfter(now) :
       \E t_cre \in ClockAfter(t_upd) :
         LET th == syncThreads[t]
             total == Len(th.merged)
             rows == IF th.txn = <<>> THEN db ELSE th.txn[1]
             locked == \E u \in 1..Len(syncThreads) :
                           u # t /\ syncThreads[u].txn # <<>>
         IN \E r \in UpsertResults(rows, th.merged[th.i], t_upd, t_cre) :
              /\ now' = IF r.hit = 0 THEN t_cre ELSE t_upd
              /\ IF locked \/ r.raised
                 THEN /\ SyncStep(t, [th EXCEPT !.pc = "except",
                                                !.upserts = @ + 1], <<>>)
                      /\ UNCHANGED db
                 ELSE IF BatchEnds(th.i, total)
                 THEN /\ db' = r.rows
                      /\ SyncStep(t, [th EXCEPT !.txn = <<>>,
                                                !.upserts = @ + 1,
                                                !.commits = @ + 1,
                                                !.i = @ + 1,
                                                !.pc = IF th.i = total
                                                       THEN "commit" ELSE "upsert"],
                                  <<Ev("progress", "", th.i, total)>>)
                 ELSE /\ UNCHANGED db
                      /\ SyncStep(t, [th EXCEPT !.txn = <<r.rows>>,
                                                !.upserts = @ + 1,
                                                !.i = @ + 1,
                                                !.pc = IF th.i = total
                                                       THEN "commit" ELSE "upsert"],
                                  <<>>)
    /\ UNCHANGED <<app, gitVars, upsertVars, remote, sync_worker, syncFinished,
                   panel, dialog, table_refreshes, handled, syncs, syncRequests>>

\* after the loop: conn.commit(), `_push(("status", "Sync complete."))`,
\* `_push(("done",))`
SyncCommit(t) ==
    /\ app = "sync"
    /\ t \in 1..Len(syncThreads)
    /\ syncThreads[t].pc = "commit"
    /\ LET th == syncThreads[t]
       IN /\ db' = IF th.txn = <<>> THEN db ELSE th.txn[1]
          /\ SyncStep(t, [th EXCEPT !.txn = <<>>, !.pc = "finally"],
                      <<Ev("status", "Sync complete.", 0, 0),
                        Ev("done", "", 0, 0)>>)
    /\ UNCHANGED <<app, gitVars, now, upsertVars, remote, sync_worker,
                   syncFinished, panel, dialog, table_refreshes, handled, syncs, syncRequests>>

ErrorEvents_none == <<>>

\* what the except clause publishes
ErrorEvents == <<Ev("error", "Sync failed", 0, 0)>>

\* `except Exception as ex: self._push(("error", ...))`
SyncExcept(t) ==
    /\ app = "sync"
    /\ t \in 1..Len(syncThreads)
    /\ syncThreads[t].pc = "except"
    /\ SyncStep(t, [syncThreads[t] EXCEPT !.pc = "finally"], ErrorEvents)
    /\ UNCHANGED <<app, gitVars, now, upsertVars, remote, db, sync_worker, syncFinished,
                   panel, dialog, table_refreshes, handled, syncs, syncRequests>>

AfterClose_commits(rows, th) == IF th.txn = <<>> THEN rows ELSE th.txn[1]

\* conn.close() without a commit: the open transaction is rolled back
AfterClose(rows, th) == rows

\* `finally: conn.close()` drops the uncommitted statements; run() returns
\* and the thread is no longer alive
SyncFinally(t) ==
    /\ app = "sync"
    /\ t \in 1..Len(syncThreads)
    /\ syncThreads[t].pc = "finally"
    /\ syncFinished' = <<[tid |-> syncThreads[t].tid,
                           pub |-> syncThreads[t].pub,
                           fetch_failed |-> syncThreads[t].fetch_failed,
                           upserts |-> syncThreads[t].upserts,
                           commits |-> syncThreads[t].commits,
                           total |-> Len(syncThreads[t].merged),
                           i |-> syncThreads[t].i,
                           txn |-> syncThreads[t].txn]>>
    /\ syncThreads' = RemoveAt(syncThreads, t)
    /\ db' = AfterClose(db, syncThreads[t])
    /\ UNCHANGED <<app, gitVars, now, upsertVars, remote, sync_worker,
                   progress_queue, panel, dialog, table_refreshes, handled,
                   syncs, syncRequests>>

\* ----------------------------------------------- SupplierApp (UI thread)
\* Thread.is_alive() of the thread with this tid
IsAlive(tid) == \E k \in 1..Len(syncThreads) : syncThreads[k].tid = tid

SyncBusy_never == FALSE

\* `if self.sync_worker and self.sync_worker.is_alive():`
SyncBusy == sync_worker # 0 /\ IsAlive(sync_worker)

\* _start_sync; auth is _resolve_api_auth() returning a value
StartSync(auth) ==
    /\ app = "sync"
    /\ syncRequests < MaxSyncRequests
    /\ syncRequests' = syncRequests + 1
    /\ IF SyncBusy
       THEN /\ dialog' = "A sync is already running."
            /\ UNCHANGED <<sync_worker, syncThreads, syncFinished, panel, syncs>>
       ELSE IF ~auth
       THEN /\ dialog' = "API Auth Missing"
            /\ UNCHANGED <<sync_worker, syncThreads, syncFinished, panel, syncs>>
       ELSE /\ panel' = "start"
            /\ syncs' = syncs + 1
            /\ sync_worker' = syncs + 1
            /\ syncThreads' = Append(syncThreads, NewSyncThread(syncs + 1))
            /\ syncFinished' = <<>>
            /\ UNCHANGED dialog
    /\ UNCHANGED <<app, gitVars, now, upsertVars, remote, db,
                   progress_queue, table_refreshes, handled>>

\* _handle_progress_message(msg): what the panel shows afterwards
PanelAfter(p, e) ==
    CASE e.typ = "status" -> "status"
      [] e.typ = "progress" -> "progress"
      [] e.typ = "done" -> "done"
      [] e.typ = "error" -> "error"
      [] OTHER -> p

RECURSIVE PanelAfterAll(_, _)
PanelAfterAll(p, q) ==
    IF q = <<>> THEN p ELSE PanelAfterAll(PanelAfter(p, Head(q)), Tail(q))

\* _poll_progress_queue: one timer callback takes every queued event, in
\* order, and reschedules itself
PollProgress ==
    /\ app = "sync"
    /\ progress_queue # <<>>
    /\ progress_queue' = <<>>
    /\ handled' = handled + Len(progress_queue)
    /\ panel' = PanelAfterAll(panel, progress_queue)
    /\ table_refreshes' = table_refreshes
           + Len(SelectSeq(progress_queue, LAMBDA e : e.typ = "done"))
    /\ dialog' = IF \E k \in 1..Len(progress_queue) : progress_queue[k].typ = "error"
                 THEN "Sync Error" ELSE dialog
    /\ UNCHANGED <<app, gitVars, now, upsertVars, remote, db, sync_worker, syncThreads,
                   syncFinished, syncs, syncRequests>>

\* SupplierApp.__init__ on a fresh suppliers.db
SyncInit ==
    /\ remote \in Remotes \cup {BulkRemote}
    /\ db = SeedRows
    /\ sync_worker = 0
    /\ syncThreads = <<>>
    /\ syncFinished = <<>>
    /\ progress_queue = <<>>
    /\ panel = "idle"
    /\ dialog = ""
    /\ table_refreshes = 0
    /\ handled = 0
    /\ syncs = 0
    /\ syncRequests = 0

\* ------------------------------------------------------- specification
\* GitManagerApp.__init__
GitInit ==
    /\ running_task = FALSE
    /\ result_queue = <<>>
    /\ gitThreads = <<>>
    /\ finished = <<>>
    /\ pollTimers = 0
    /\ console = <<"", <<>>>>
    /\ status_left = "Ready"
    /\ refreshes = 0
    /\ drained = <<>>
    /\ admitted = 0
    /\ drains = 0

UpsertIdle ==
    /\ u_rec = NULL
    /\ u_rows = <<>>
    /\ u_res = <<>>

MergeIdle ==
    /\ m_in = NULL
    /\ m_out = <<>>
    /\ f_in = <<>>
    /\ f_out = <<>>

TableIdle ==
    /\ store = <<>>
    /\ view = NULL
    /\ shown = <<>>
    /\ edits = 0

Init ==
    /\ app \in {"git", "sync"}
    /\ GitInit
    /\ SyncInit
    /\ remote \in Remotes
    /\ (app = "git" => remote = [products |-> <<>>, orders |-> <<>>,
                 page_size |-> ServerPageSize])
    /\ now = 0
    /\ UpsertIdle
    /\ MergeIdle
    /\ TableIdle

Next ==
    \/ \E c \in Chains, ok \in BOOLEAN, r \in BOOLEAN : RunGitChain(c, ok, r)
    \/ \E t \in 1..Len(gitThreads) : GitWorkerStep(t)
    \/ \E t \in 1..Len(gitThreads) : GitWorkerPut(t)
    \/ PollResults
    \/ \E a \in BOOLEAN : StartSync(a)
    \/ \E t \in 1..Len(syncThreads) : SyncRunStart(t)
    \/ \E t \in 1..Len(syncThreads) : SyncFetchPage(t)
    \/ \E t \in 1..Len(syncThreads) : SyncMerge(t)
    \/ \E t \in 1..Len(syncThreads) : SyncUpsertStep(t)
    \/ \E t \in 1..Len(syncThreads) : SyncCommit(t)
    \/ \E t \in 1..Len(syncThreads) : SyncExcept(t)
    \/ \E t \in 1..Len(syncThreads) : SyncFinally(t)
    \/ PollProgress

Spec == Init /\ [][Next]_vars

\* the supplier dashboard against the large remote
InitBulk ==
    /\ app = "sync"
    /\ GitInit
    /\ SyncInit
    /\ remote = BulkRemote
    /\ now = 0
    /\ UpsertIdle
    /\ MergeIdle
    /\ TableIdle

NextBulk ==
    \/ \E a \in BOOLEAN : StartSync(a)
    \/ \E t \in 1..Len(syncThreads) : SyncRunStart(t)
    \/ \E t \in 1..Len(syncThreads) : SyncFetchPage(t)
    \/ \E t \in 1..Len(syncThreads) : SyncMerge(t)
    \/ \E t \in 1..Len(syncThreads) : SyncUpsertStep(t)
    \/ \E t \in 1..Len(syncThreads) : SyncCommit(t)
    \/ \E t \in 1..Len(syncThreads) : SyncExcept(t)
    \/ \E t \in 1..Len(syncThreads) : SyncFinally(t)
    \/ PollProgress

SpecBulk == InitBulk /\ [][NextBulk]_vars

\* upsert_supplier alone, from every store and record of the bounded sets
InitUpsert ==
    /\ app = "upsert"
    /\ GitInit
    /\ SyncInit
    /\ remote = [products |-> <<>>, orders |-> <<>>,
                 page_size |-> ServerPageSize]
    /\ now = 0
    /\ u_rec \in MergedRecords
    /\ u_rows \in {<<st>> : st \in Stores}
    /\ u_res = <<>>
    /\ MergeIdle
    /\ TableIdle

NextUpsert == ApplyUpsert

SpecUpsert == InitUpsert /\ [][NextUpsert]_vars

\* fetch_suppliers_merged applied to fetched lists: products and orders of
\* up to MaxMerge records; the id of an order is its position in the list
MergeProducts ==
    [account_id : {Some("A1"), NULL}, name : {Some("Acme"), NULL},
     country : {Some("NZ")}]

MergeOrderKeys == [account_id : {Some("A1"), Some("A2"), NULL},
                   name : {Some("acme"), Some("bolt")}]

MergeInputs ==
    {[products |-> ps,
      orders |-> [k \in 1..Len(os) |->
                     [account_id |-> os[k].account_id, name |-> os[k].name,
                      id |-> Some(k)]]] :
        ps \in UNION {[1..n -> MergeProducts] : n \in 0..MaxMerge},
        os \in UNION {[1..n -> MergeOrderKeys] : n \in 0..MaxMerge}}

\* merged = api.fetch_suppliers_merged() once both lists are fetched
ApplyMerge ==
    /\ app = "merge"
    /\ m_out = <<>>
    /\ m_out' = <<Merge(m_in.products, m_in.orders)>>
    /\ UNCHANGED <<app, gitVars, now, u_rec, u_rows, u_res, m_in, f_in, f_out,
                   tableVars, syncVars>>

InitMerge ==
    /\ app = "merge"
    /\ GitInit
    /\ SyncInit
    /\ remote = [products |-> <<>>, orders |-> <<>>,
                 page_size |-> ServerPageSize]
    /\ now = 0
    /\ UpsertIdle
    /\ TableIdle
    /\ m_in \in MergeInputs
    /\ m_out = <<>>
    /\ f_in = <<>>
    /\ f_out = <<>>

NextMerge == ApplyMerge

SpecMerge == InitMerge /\ [][NextMerge]_vars

---------------------------------------------------------------------------
\* parse_status_porcelain applied alone.  A text is a sequence of characters,
\* each a one-character string; LF is the line terminator.

LF == "\n"

Whitespace == {" ", LF}

SetMin(S) == CHOOSE x \in S : \A y \in S : x <= y

SetMax(S) == CHOOSE x \in S : \A y \in S : y <= x

SeqsUpTo(S, n) == UNION {[1..k -> S] : k \in 0..n}

\* str.splitlines(): the lines without their terminators; a trailing
\* terminator opens no further line
RECURSIVE SplitLines(_)
SplitLines(text) ==
    IF text = <<>> THEN <<>>
    ELSE LET ends == {i \in 1..Len(text) : text[i] = LF}
             k == IF ends = {} THEN Len(text) + 1 ELSE SetMin(ends)
         IN <<SubSeq(text, 1, k - 1)>>
                \o SplitLines(SubSeq(text, k + 1, Len(text)))

\* str.strip()
Strip(s) ==
    LET keep == {i \in 1..Len(s) : s[i] \notin Whitespace}
    IN IF keep = {} THEN <<>> ELSE SubSeq(s, SetMin(keep), SetMax(keep))

\* positions where "->" starts in s
Arrows(s) == {i \in 1..(Len(s) - 1) : s[i] = "-" /\ s[i + 1] = ">"}

\* s.split("->", 1)[1]
AfterArrow(s) == SubSeq(s, SetMin(Arrows(s)) + 2, Len(s))

StatusMapping ==
    [c \in {"M", "A", "D", "R", "C", "U", " "} |->
        CASE c = "M" -> "Modified"
          [] c = "A" -> "Added"
          [] c = "D" -> "Deleted"
          [] c = "R" -> "Renamed"
          [] c = "C" -> "Copied"
          [] c = "U" -> "Unmerged"
          [] OTHER -> " "]

\* mapping.get(flag, flag)
MappingGet(flag) ==
    IF flag \in DOMAIN StatusMapping THEN StatusMapping[flag] ELSE flag

\* x[1] of a one-character line raises IndexError
LineRaises(line) == Strip(line) # <<>> /\ Len(line) < 2

\* the record appended for one non-blank line of two characters or more
ParseLine(line) ==
    LET rest == SubSeq(line, 4, Len(line))
        index_flag == line[1]
        wt_flag == line[2]
    IN IF index_flag = "?" /\ wt_flag = "?"
       THEN [path |-> Strip(rest), status |-> "Untracked",
             index |-> "?", worktree |-> "?"]
       ELSE IF Arrows(rest) # {}
       THEN [path |-> Strip(AfterArrow(rest)), status |-> "Renamed",
             index |-> index_flag, worktree |-> wt_flag]
       ELSE [path |-> Strip(rest),
             status |-> IF index_flag # " " THEN MappingGet(index_flag)
                        ELSE IF wt_flag # " " THEN MappingGet(wt_flag)
                        ELSE "Changed",
             index |-> index_flag, worktree |-> wt_flag]

RECURSIVE ParseLines(_)
ParseLines(lines) ==
    IF lines = <<>> THEN <<>>
    ELSE IF Strip(Head(lines)) = <<>> THEN ParseLines(Tail(lines))
    ELSE <<ParseLine(Head(lines))>> \o ParseLines(Tail(lines))

\* what a call does: it raises, or it returns the list of records
parse_status_porcelain(text) ==
    LET lines == SplitLines(text)
    IN IF \E k \in 1..Len(lines) : LineRaises(lines[k])
       THEN [raised |-> TRUE, items |-> <<>>]
       ELSE [raised |-> FALSE, items |-> ParseLines(lines)]

StatusCodes == {"M", "R", "?", " ", "X"}

PathChars == {"a", " ", "-", ">"}

ExampleStatus ==
    <<" ", "M", " ", "a", LF,
      "A", " ", " ", "b", LF,
      "?", "?", " ", "c", LF,
      "R", " ", " ", "o", " ", "-", ">", " ", "n">>

PorcelainInputs ==
    {ExampleStatus,
     <<" ", "M", " ", "a", LF, LF, " ", " ", LF, "D", " ", " ", "b", LF>>,
     <<LF, " ", "M", " ", "a", LF, "M">>}
    \cup SeqsUpTo(StatusCodes, 2)
    \cup {<<x, y, " ">> \o r :
            x \in StatusCodes, y \in StatusCodes,
            r \in SeqsUpTo(PathChars, MaxRest)}

ApplyPorcelain ==
    /\ app = "porcelain"
    /\ f_out = <<>>
    /\ f_out' = <<parse_status_porcelain(f_in)>>
    /\ UNCHANGED <<app, gitVars, now, u_rec, u_rows, u_res, m_in, m_out,
                   f_in, tableVars, syncVars>>

InitPorcelain ==
    /\ app = "porcelain"
    /\ GitInit
    /\ SyncInit
    /\ remote = [products |-> <<>>, orders |-> <<>>,
                 page_size |-> ServerPageSize]
    /\ now = 0
    /\ UpsertIdle
    /\ TableIdle
    /\ m_in = NULL
    /\ m_out = <<>>
    /\ f_in \in PorcelainInputs
    /\ f_out = <<>>

NextPorcelain == ApplyPorcelain

SpecPorcelain == InitPorcelain /\ [][NextPorcelain]_vars

---------------------------------------------------------------------------
\* parse_ahead_behind applied alone.  A line is a sequence of pieces of text:
\* the characters "[", "]", "," and " ", digits, and words that hold none of
\* these.

Digits == {"1", "2"}

DigitValue(d) == IF d = "1" THEN 1 ELSE 2

\* s.index(c)
IndexOf(s, c) == SetMin({i \in 1..Len(s) : s[i] = c})

\* s.split(",")
RECURSIVE SplitComma(_)
SplitComma(s) ==
    IF "," \notin Range(s) THEN <<s>>
    ELSE <<SubSeq(s, 1, IndexOf(s, ",") - 1)>>
            \o SplitComma(SubSeq(s, IndexOf(s, ",") + 1, Len(s)))

\* s.split(): the maximal runs without whitespace
RECURSIVE Words(_)
Words(s) ==
    LET t == Strip(s)
    IN IF t = <<>> THEN <<>>
       ELSE IF " " \notin Range(t) THEN <<t>>
       ELSE <<SubSeq(t, 1, IndexOf(t, " ") - 1)>>
               \o Words(SubSeq(t, IndexOf(t, " ") + 1, Len(t)))

\* int(w) succeeds
IsInt(w) == w # <<>> /\ Range(w) \subseteq Digits

RECURSIVE IntOf(_)
IntOf(w) ==
    IF w = <<>> THEN 0
    ELSE 10 * IntOf(SubSeq(w, 1, Len(w) - 1)) + DigitValue(w[Len(w)])

\* try: v = int(p.split()[1]) except Exception: pass
CountAfter(p, old) ==
    IF Len(Words(p)) >= 2 /\ IsInt(Words(p)[2]) THEN IntOf(Words(p)[2])
    ELSE old

StartsWith(p, word) == p # <<>> /\ p[1] = word

RECURSIVE ScanParts(_, _)
ScanParts(parts, ab) ==
    IF parts = <<>> THEN ab
    ELSE LET q == Strip(Head(parts))
             a == IF StartsWith(q, "ahead") THEN CountAfter(q, ab[1])
                  ELSE ab[1]
             b == IF StartsWith(q, "behind") THEN CountAfter(q, ab[2])
                  ELSE ab[2]
         IN ScanParts(Tail(parts), <<a, b>>)

parse_ahead_behind(short_status_line) ==
    IF "[" \in Range(short_status_line) /\ "]" \in Range(short_status_line)
    THEN LET bracket == SubSeq(short_status_line,
                               IndexOf(short_status_line, "[") + 1,
                               IndexOf(short_status_line, "]") - 1)
         IN ScanParts(SplitComma(bracket), <<0, 0>>)
    ELSE <<0, 0>>

LinePieces == {"[", "]", ",", " ", "ahead", "behind", "2"}

ExampleAheadBehind ==
    <<"##", " ", "main...origin/main", " ",
      "[", "ahead", " ", "2", ",", " ", "behind", " ", "1", "]">>

ExampleNoBracket == <<"##", " ", "main">>

AheadBehindInputs ==
    {ExampleAheadBehind, ExampleNoBracket,
     <<"##", " ", "main...origin/main", " ", "[", "behind", " ", "1", "2", "]">>,
     <<"##", " ", "main...origin/main", " ", "[", "ahead", " ", "x", "]">>,
     <<"##", " ", "main...origin/main", " ", "[", "gone", "]">>,
     <<"##", " ", "fix", "]", "...origin/fix", "]", " ",
       "[", "ahead", " ", "2", "]">>}
    \cup SeqsUpTo(LinePieces, MaxLine)

ApplyAheadBehind ==
    /\ app = "aheadbehind"
    /\ f_out = <<>>
    /\ f_out' = <<parse_ahead_behind(f_in)>>
    /\ UNCHANGED <<app, gitVars, now, u_rec, u_rows, u_res, m_in, m_out,
                   f_in, tableVars, syncVars>>

InitAheadBehind ==
    /\ app = "aheadbehind"
    /\ GitInit
    /\ SyncInit
    /\ remote = [products |-> <<>>, orders |-> <<>>,
                 page_size |-> ServerPageSize]
    /\ now = 0
    /\ UpsertIdle
    /\ TableIdle
    /\ m_in = NULL
    /\ m_out = <<>>
    /\ f_in \in AheadBehindInputs
    /\ f_out = <<>>

NextAheadBehind == ApplyAheadBehind

SpecAheadBehind == InitAheadBehind /\ [][NextAheadBehind]_vars

---------------------------------------------------------------------------
\* The table view alone: DataAccess.query_page, TableView and the writers of
\* the store (EditDialog._save, a sync run).

DEFAULT_PAGE_SIZE == 25

PAGE_SIZE_OPTIONS == {10, 25}

\* the letters of a stored text, lower case: `v LIKE '%q%'` for a filter q of
\* one letter is "q is one of them" (LIKE ignores the case of ASCII letters)
LettersOf(v) ==
    CASE v \in {"a", "A"} -> {"a"}
      [] v \in {"b", "B"} -> {"b"}
      [] v = "A1" -> {"a", "1"}
      [] v = "A9" -> {"a", "9"}
      [] OTHER -> {}

Like(x, q) == x # NULL /\ q \in LettersOf(x[1])

\* _build_where_clause: all rows for an empty q, else
\* name LIKE ? OR IFNULL(sap_id,'') LIKE ? OR IFNULL(account_id,'') LIKE ?
Matches(row, q) ==
    q = "" \/ Like(row.name, q) \/ Like(row.country, q)
           \/ Like(row.account_id, q)

\* the place of a text under COLLATE NOCASE
NoCaseRank(v) == IF v \in {"a", "A"} THEN 1 ELSE 2

\* _order_by_clause: the sort key of a row; NULL sorts before every value
SortKey(row, sort_col) ==
    IF sort_col \in {"", "name"}
    THEN IF row.name = NULL THEN <<0, 0>> ELSE <<1, NoCaseRank(row.name[1])>>
    ELSE IF sort_col = "external_id"
    THEN IF row.external_id = NULL THEN <<0, 0>> ELSE <<1, row.external_id[1]>>
    ELSE <<1, row.updated_at>>

KeyLess(a, b) == a[1] < b[1] \/ (a[1] = b[1] /\ a[2] < b[2])

\* the ORDER BY has no second term: rows of equal key come out in the order
\* the table is scanned, by rowid, for ASC and DESC alike
OrderedBefore(k1, id1, k2, id2, sort_col, sort_dir) ==
    IF k1 = k2 THEN id1 < id2
    ELSE IF sort_col = "" \/ sort_dir = "ASC" THEN KeyLess(k1, k2)
    ELSE KeyLess(k2, k1)

\* ORDER BY: r put at its place among rows already in order
PutInOrder(sorted, r, sort_col, sort_dir) ==
    LET n == Cardinality({i \in 1..Len(sorted) :
                 OrderedBefore(SortKey(sorted[i], sort_col), sorted[i].id,
                               SortKey(r, sort_col), r.id,
                               sort_col, sort_dir)})
    IN SubSeq(sorted, 1, n) \o <<r>> \o SubSeq(sorted, n + 1, Len(sorted))

\* SELECT * FROM suppliers <where> <order>, over the first n rows
RECURSIVE SelectedOf(_, _, _, _, _)
SelectedOf(rows, n, q, sort_col, sort_dir) ==
    IF n = 0 THEN <<>>
    ELSE IF Matches(rows[n], q)
    THEN PutInOrder(SelectedOf(rows, n - 1, q, sort_col, sort_dir), rows[n],
                    sort_col, sort_dir)
    ELSE SelectedOf(rows, n - 1, q, sort_col, sort_dir)

Selected(rows, q, sort_col, sort_dir) ==
    SelectedOf(rows, Len(rows), q, sort_col, sort_dir)

\* LIMIT ? OFFSET ?
LimitOffset_overlapping(sel, page_size, offset) ==
    IF offset >= Len(sel) THEN <<>>
    ELSE SubSeq(sel, Max({offset, 1}),
                IF offset + page_size < Len(sel) THEN offset + page_size
                ELSE Len(sel))

LimitOffset(sel, page_size, offset) ==
    IF offset >= Len(sel) THEN <<>>
    ELSE SubSeq(sel, offset + 1,
                IF offset + page_size < Len(sel) THEN offset + page_size
                ELSE Len(sel))

query_page_countsAll(rows, q, sort_col, sort_dir, page_size, page_index) ==
    LET sel == Selected(rows, q, sort_col, sort_dir)
    IN [rows |-> LimitOffset(sel, page_size, page_index * page_size),
        total |-> Len(rows)]

query_page(rows, q, sort_col, sort_dir, page_size, page_index) ==
    LET sel == Selected(rows, q, sort_col, sort_dir)
    IN [rows |-> LimitOffset(sel, page_size, page_index * page_size),
        total |-> Len(sel)]

\* max((total - 1) // page_size, 0)
MaxPageIdx_unclamped(total, page_size) == total

MaxPageIdx(total, page_size) == Max({(total - 1) \div page_size, 0})

\* TableView.refresh_table: the page index afterwards, what was asked and
\* what is displayed
RefreshTable(rows, v) ==
    LET first == query_page(rows, v.q, v.sort_col, v.sort_dir,
                            v.page_size, v.page_index)
        max_page_idx == MaxPageIdx(first.total, v.page_size)
        w == IF v.page_index > max_page_idx
             THEN [v EXCEPT !.page_index = max_page_idx]
             ELSE v
        res == IF v.page_index > max_page_idx
               THEN query_page(rows, w.q, w.sort_col, w.sort_dir,
                               w.page_size, w.page_index)
               ELSE first
    IN [view |-> w,
        shown |-> [asked |-> w, rows |-> res.rows, total |-> res.total]]

\* the last refresh, and the one before it when that one asked for another
\* page of the same query over the same rows
Remember(hist, r, same_rows) ==
    IF /\ same_rows
       /\ hist # <<>>
       /\ [Last(hist).asked EXCEPT !.page_index = 0]
             = [r.asked EXCEPT !.page_index = 0]
       /\ Last(hist).asked.page_index # r.asked.page_index
    THEN <<Last(hist), r>>
    ELSE <<r>>

Refreshed(rows, v) ==
    LET r == RefreshTable(rows, v)
    IN /\ view' = r.view
       /\ shown' = Remember(shown, r.shown, rows = store)

TableRest == <<app, gitVars, now, u_rec, u_rows, u_res, m_in, m_out,
               f_in, f_out, syncVars>>

Filters == {"", "a"}

SortFields == {"name", "external_id"}

\* the user types in the Quick Filter entry, which is bound to q
TypeFilter(q) ==
    /\ app = "table"
    /\ q # view.q
    /\ view' = [view EXCEPT !.q = q]
    /\ UNCHANGED <<store, shown, edits, TableRest>>

apply_filter ==
    /\ app = "table"
    /\ Refreshed(store, [view EXCEPT !.page_index = 0])
    /\ UNCHANGED <<store, edits, TableRest>>

clear_filter ==
    /\ app = "table"
    /\ Refreshed(store, [view EXCEPT !.q = "", !.page_index = 0])
    /\ UNCHANGED <<store, edits, TableRest>>

set_page_size(size) ==
    /\ app = "table"
    /\ Refreshed(store, [view EXCEPT !.page_size = size, !.page_index = 0])
    /\ UNCHANGED <<store, edits, TableRest>>

prev_page ==
    /\ app = "table"
    /\ IF view.page_index > 0
       THEN Refreshed(store, [view EXCEPT !.page_index = @ - 1])
       ELSE UNCHANGED <<view, shown>>
    /\ UNCHANGED <<store, edits, TableRest>>

next_page ==
    /\ app = "table"
    /\ Refreshed(store, [view EXCEPT !.page_index = @ + 1])
    /\ UNCHANGED <<store, edits, TableRest>>

toggle_sort(field) ==
    /\ app = "table"
    /\ Refreshed(store,
                 IF view.sort_col = field
                 THEN [view EXCEPT
                         !.sort_dir = IF @ = "ASC" THEN "DESC" ELSE "ASC",
                         !.page_index = 0]
                 ELSE [view EXCEPT !.sort_col = field, !.sort_dir = "ASC",
                                   !.page_index = 0])
    /\ UNCHANGED <<store, edits, TableRest>>

\* UPDATE suppliers SET <the form's fields>, updated_at = ? WHERE id = ?
update_supplier_reinserts(rows, rec_id, name, t) ==
    [k \in 1..Len(rows) |->
        IF rows[k].id = rec_id
        THEN [rows[k] EXCEPT !.id = Len(rows) + 1, !.name = name,
                             !.updated_at = t]
        ELSE rows[k]]

update_supplier(rows, rec_id, name, t) ==
    [k \in 1..Len(rows) |->
        IF rows[k].id = rec_id
        THEN [rows[k] EXCEPT !.name = name, !.updated_at = t]
        ELSE rows[k]]

\* the rows a double click can open: displayed ones
EditableIds == {1, 2}

EditNames == {Some("b")}

\* EditDialog._save on a displayed row, then on_saved
EditSave(rec_id, name) ==
    /\ app = "table"
    /\ edits < MaxStoreOps
    /\ \E k \in 1..Len(Last(shown).rows) : Last(shown).rows[k].id = rec_id
    /\ \E t \in ClockAfter(now) :
          /\ now' = t
          /\ store' = update_supplier(store, rec_id, name, t)
    /\ Refreshed(store', view)
    /\ edits' = edits + 1
    /\ UNCHANGED <<app, gitVars, u_rec, u_rows, u_res, m_in, m_out,
                   f_in, f_out, syncVars>>

\* what a run of SyncWorker leaves committed: the upserts of its records
\* in turn, committed after the last one (fewer than ProgressEvery records),
\* or nothing when an upsert raised
RECURSIVE RunOutcomes(_, _, _)
RunOutcomes(rows, recs, t) ==
    IF recs = <<>> THEN {[rows |-> rows, raised |-> FALSE]}
    ELSE UNION {IF r.raised THEN {[rows |-> rows, raised |-> TRUE]}
                ELSE RunOutcomes(r.rows, Tail(recs), t) :
                    r \in UpsertResults(rows, Head(recs), t, t)}

TableRecord(name, account_id) ==
    [name |-> Some(name), account_id |-> Some(account_id),
     external_id |-> NULL, country |-> NULL]

TableSyncRuns ==
    {<<TableRecord("b", "A1")>>, <<TableRecord("a", "A9")>>,
     <<TableRecord("a", "A1"), TableRecord("b", "A9")>>}

\* a whole sync run, and the done event handled (refresh_table) when it
\* published one
SyncRun(recs) ==
    /\ app = "table"
    /\ edits < MaxStoreOps
    /\ \E t \in ClockAfter(now) :
       \E o \in RunOutcomes(store, recs, t) :
          /\ now' = t
          /\ store' = IF o.raised THEN store ELSE o.rows
          /\ IF o.raised THEN UNCHANGED <<view, shown>>
             ELSE Refreshed(store', view)
    /\ edits' = edits + 1
    /\ UNCHANGED <<app, gitVars, u_rec, u_rows, u_res, m_in, m_out,
                   f_in, f_out, syncVars>>

NameCycle == <<"b", "a", "A">>

\* stores of n rows with ties in every sort column
TableStore(n) ==
    [k \in 1..n |->
        Row(k, Some(NameCycle[(k % 3) + 1]),
            IF k = 2 THEN Some("A1") ELSE NULL,
            IF k % 2 = 0 THEN Some(7) ELSE NULL,
            NULL, 0, 0)]

TableSizes == {0, 3, MaxTableRows}

InitTable ==
    /\ app = "table"
    /\ GitInit
    /\ SyncInit
    /\ remote = [products |-> <<>>, orders |-> <<>>,
                 page_size |-> ServerPageSize]
    /\ now = 0
    /\ UpsertIdle
    /\ m_in = NULL
    /\ m_out = <<>>
    /\ f_in = <<>>
    /\ f_out = <<>>
    /\ \E n \in TableSizes :
         LET v0 == [q |-> "", page_size |-> DEFAULT_PAGE_SIZE,
                    page_index |-> 0, sort_col |-> "name", sort_dir |-> "ASC"]
         IN /\ store = TableStore(n)
            /\ view = RefreshTable(store, v0).view
            /\ shown = <<RefreshTable(store, v0).shown>>
    /\ edits = 0

NextTable ==
    \/ \E q \in Filters : TypeFilter(q)
    \/ apply_filter
    \/ clear_filter
    \/ \E size \in PAGE_SIZE_OPTIONS : set_page_size(size)
    \/ prev_page
    \/ next_page
    \/ \E field \in SortFields : toggle_sort(field)
    \/ \E rec_id \in EditableIds, name \in EditNames : EditSave(rec_id, name)
    \/ \E recs \in TableSyncRuns : SyncRun(recs)

SpecTable == InitTable /\ [][NextTable]_vars

\* worker threads and the poll timer are scheduled fairly; commands and
\* HTTP requests terminate
FairSpec ==
    /\ Init /\ [][Next]_vars
    /\ WF_vars(\E t \in 1..Len(gitThreads) : GitWorkerStep(t) \/ GitWorkerPut(t))
    /\ WF_vars(PollResults)
    /\ WF_vars(\E t \in 1..Len(syncThreads) :
                  \/ SyncRunStart(t) \/ SyncFetchPage(t) \/ SyncMerge(t)
                  \/ SyncUpsertStep(t) \/ SyncCommit(t) \/ SyncExcept(t)
                  \/ SyncFinally(t))
    /\ WF_vars(PollProgress)

\* ================================================================ claims
\* ---- C1
StepFailed(th) == \E j \in 1..Len(th.ran) : th.ran[j][2] # 0

RanInOrder(th) ==
    /\ \A j \in 1..Len(th.ran) : th.ran[j][1] = j
    /\ \A j \in 1..(Len(th.ran) - 1) : th.ran[j][2] = 0

ChainEnded(th) ==
    IF StepFailed(th)
    THEN th.final_rc # 0
    ELSE Len(th.ran) = Len(th.commands) /\ th.final_rc = 0

\* C1: the worker runs the commands of a chain in order; no command runs
\* after one that returned nonzero; the outcome is error when a step failed
\* and ok when every step of the chain ran and returned 0.
C1_ChainStopsAtFirstFailure ==
    /\ \A t \in 1..Len(gitThreads) :
          /\ RanInOrder(gitThreads[t])
          /\ gitThreads[t].pc = "put" => ChainEnded(gitThreads[t])
    /\ \A k \in 1..Len(finished) :
          /\ RanInOrder(finished[k])
          /\ ChainEnded(finished[k])
    /\ (finished # <<>> /\ result_queue = <<>> /\ ~running_task)
          => status_left = IF StepFailed(finished[1])
                           THEN "Done (Error)" ELSE "Done (OK)"

C1_Witness ==
    /\ finished # <<>>
    /\ Len(finished[1].commands) = 2
    /\ finished[1].ran = <<<<1, 1>>>>
    /\ ~running_task /\ result_queue = <<>>
    /\ status_left = "Done (Error)"

\* ---- C2
Outstanding == admitted > drains

MsgStillRunning == <<"Another operation is still running", <<>>>>
MsgInvalidPath == <<"ERROR: Invalid repository path", <<>>>>

\* the step is a call of run_git_chain
IsRequest ==
    \E commands \in Chains, cwd_ok \in BOOLEAN, refresh \in BOOLEAN :
        RunGitChain(commands, cwd_ok, refresh)

RequestRejected ==
    /\ gitThreads' = gitThreads
    /\ running_task' = running_task
    /\ result_queue' = result_queue
    /\ admitted' = admitted

\* C2 as stated: every request made while a task is outstanding is rejected
\* with the still-running message, and a request made when none is
\* outstanding is admitted.
C2_Original ==
    [][IsRequest =>
          IF Outstanding
          THEN RequestRejected /\ console' = MsgStillRunning
          ELSE admitted' = admitted + 1]_vars

\* C2 amended: a request made while a task is outstanding starts no worker
\* and leaves the flag and the queue unchanged, and writes a message: the
\* still-running message, or the invalid-path error when its directory is
\* invalid; a request made when no task is outstanding is admitted unless
\* its directory is invalid.
C2_RejectedWhileOutstanding ==
    [][IsRequest =>
          IF Outstanding
          THEN RequestRejected /\ console' \in {MsgStillRunning, MsgInvalidPath}
          ELSE \/ admitted' = admitted + 1 /\ running_task' /\ Len(gitThreads') = 1
               \/ RequestRejected /\ console' = MsgInvalidPath]_vars

C2_Witness ==
    /\ running_task /\ admitted = 2 /\ drains = 1
    /\ console = MsgStillRunning

\* ---- C3
\* C3: at most one worker thread is executing, in either application.
C3_AtMostOneWorker ==
    /\ Len(gitThreads) <= 1
    /\ Len(syncThreads) <= 1

C3_Witness ==
    /\ Len(gitThreads) = 1
    /\ gitThreads[1].ran # <<>>
    /\ console = MsgStillRunning

\* ---- C4
TerminalQueued == \E k \in 1..Len(progress_queue) : IsTerminal(progress_queue[k])

\* C4 as stated: no task is admitted while the terminal event of an earlier
\* task is still in the queue (the state right after an admission).
C4_Original ==
    /\ \A t \in 1..Len(gitThreads) :
          gitThreads[t].ran = <<>> => result_queue = <<>>
    /\ \A t \in 1..Len(syncThreads) :
          syncThreads[t].pc = "start" => ~TerminalQueued

\* C4 amended: in the git manager the guard is released once per admitted
\* task, by the poll that drains the task's outcome, and no chain is admitted
\* while an outcome is undelivered; in the supplier dashboard the guard is
\* the liveness of the SyncWorker, released once per run when the thread
\* ends after publishing its terminal event, drained or not.
C4_GuardRelease ==
    [][/\ (running_task /\ ~running_task') =>
              (drains' = drains + 1 /\ result_queue' = Tail(result_queue))
       /\ (drains' # drains) =>
              (running_task /\ ~running_task' /\ drains' = admitted)
       /\ (admitted' # admitted) =>
              (result_queue = <<>> /\ drains = admitted /\ ~running_task)
       /\ (SyncBusy /\ ~SyncBusy') =>
              /\ syncFinished' # <<>>
              /\ syncFinished'[1].tid = sync_worker
              /\ IsTerminal(Last(syncFinished'[1].pub))
              /\ syncThreads' = <<>>
       /\ (syncs' # syncs) => (~SyncBusy /\ SyncBusy')]_vars

C4_Witness ==
    /\ syncThreads = <<>>
    /\ syncs = 1
    /\ TerminalQueued

\* ---- C5
SyncRuns == Range(syncThreads) \cup
            {[pub |-> f.pub, fetch_failed |-> f.fetch_failed,
              upserts |-> f.upserts, commits |-> f.commits, ended |-> TRUE] :
                f \in Range(syncFinished)}

HasEvent(pub, typ) == \E k \in 1..Len(pub) : pub[k].typ = typ

\* C5: a run in which a page request failed publishes no done event,
\* executes no upsert and commits nothing, and ends with an error event.
C5_FetchFailureAborts ==
    /\ \A t \in 1..Len(syncThreads) :
          syncThreads[t].fetch_failed =>
             /\ syncThreads[t].upserts = 0
             /\ syncThreads[t].commits = 0
             /\ ~HasEvent(syncThreads[t].pub, "done")
    /\ \A k \in 1..Len(syncFinished) :
          syncFinished[k].fetch_failed =>
             /\ syncFinished[k].upserts = 0
             /\ syncFinished[k].commits = 0
             /\ ~HasEvent(syncFinished[k].pub, "done")
             /\ HasEvent(syncFinished[k].pub, "error")

\* ---- C6
GuardEngaged == running_task \/ SyncBusy

\* C6: under fair scheduling every admitted task is followed by a state in
\* which the guard is free.
C6_GuardEventuallyFree == GuardEngaged ~> ~GuardEngaged

C6_Witness ==
    /\ ~running_task
    /\ drains = 1
    /\ drained[1].rc # 0

\* ---- C7
Terminals(pub) == {k \in 1..Len(pub) : IsTerminal(pub[k])}

\* C7: a sync run publishes at most one terminal event and nothing after
\* it; a run that has ended has published exactly one, done or error.
C7_OneTerminalEvent ==
    /\ \A t \in 1..Len(syncThreads) :
          /\ Terminals(syncThreads[t].pub) \subseteq {Len(syncThreads[t].pub)}
          /\ syncThreads[t].pc = "finally"
                => Terminals(syncThreads[t].pub) = {Len(syncThreads[t].pub)}
    /\ \A k \in 1..Len(syncFinished) :
          /\ syncFinished[k].pub # <<>>
          /\ Terminals(syncFinished[k].pub) = {Len(syncFinished[k].pub)}

C7_Witness ==
    /\ syncFinished # <<>>
    /\ Last(syncFinished[1].pub).typ = "error"
    /\ syncFinished[1].upserts > 0

\* ---- C8
\* C8: an application of upsert_supplier to a record that matches no row
\* adds one row with the record's values, created_at and updated_at set to
\* the time of the call, and does not raise.
C8_InsertsNewRow ==
    \A j \in 1..Len(u_res) :
       Candidates(u_rows[j], u_rec) = {} =>
          /\ ~u_res[j].raised
          /\ Len(u_rows[j + 1]) = Len(u_rows[j]) + 1
          /\ SubSeq(u_rows[j + 1], 1, Len(u_rows[j])) = u_rows[j]
          /\ LET r == Last(u_rows[j + 1])
             IN /\ r.name = u_rec.name
                /\ r.account_id = u_rec.account_id
                /\ r.external_id = u_rec.external_id
                /\ r.country = u_rec.country
                /\ r.updated_at = u_res[j].t_upd
                /\ r.created_at \in ClockAfter(u_res[j].t_upd)

\* ---- C9
RowsOfAccount(rows, acc) == {k \in 1..Len(rows) : rows[k].account_id = acc}

\* C9: after two applications of upsert_supplier with the same record that
\* has an account identifier, exactly one row has that identifier; from the
\* first application to the second its updated_at does not decrease and its
\* other fields are unchanged.
C9_UpsertIdempotent ==
    (Len(u_res) >= 2 /\ Truthy(u_rec.account_id)) =>
       /\ Cardinality(RowsOfAccount(u_rows[3], u_rec.account_id)) = 1
       /\ Len(u_rows[3]) = Len(u_rows[2])
       /\ \A k \in 1..Len(u_rows[2]) :
             /\ u_rows[3][k].updated_at >= u_rows[2][k].updated_at
             /\ [u_rows[3][k] EXCEPT !.updated_at = 0]
                   = [u_rows[2][k] EXCEPT !.updated_at = 0]

\* ---- C10
\* C10: the row upsert_supplier updates is found by account identifier alone
\* when the record has one, and otherwise by equal name and equal external
\* id (null equal to null); only that row changes and no row is added.
C10_MatchRule ==
    \A j \in 1..Len(u_res) :
       LET rows == u_rows[j]
           after == u_rows[j + 1]
           hit == u_res[j].hit
       IN /\ (Truthy(u_rec.account_id) /\ RowsOfAccount(rows, u_rec.account_id) = {})
                => hit = 0
          /\ hit # 0 =>
                /\ IF Truthy(u_rec.account_id)
                   THEN rows[hit].account_id = u_rec.account_id
                   ELSE /\ rows[hit].name = u_rec.name
                        /\ rows[hit].external_id = u_rec.external_id
                /\ Len(after) = Len(rows)
                /\ \A k \in 1..Len(rows) : k # hit => after[k] = rows[k]
                /\ after[hit] = [rows[hit] EXCEPT !.name = u_rec.name,
                                    !.account_id = u_rec.account_id,
                                    !.external_id = u_rec.external_id,
                                    !.country = u_rec.country,
                                    !.updated_at = u_res[j].t_upd]

\* ---- C11
ProgressOf(pub) == SelectSeq(pub, LAMBDA e : e.typ = "progress")

\* the runs in sight: the live threads and the one that ended last
RunsInSight ==
    {[tid |-> th.tid, pub |-> th.pub, total |-> Len(th.merged), i |-> th.i,
      txn |-> th.txn] : th \in Range(syncThreads)}
    \cup {[tid |-> f.tid, pub |-> f.pub, total |-> f.total, i |-> f.i,
           txn |-> f.txn] : f \in Range(syncFinished)}

\* C11: within a run over N merged records the processed-count of the
\* progress events never decreases and every progress event carries total N;
\* a successful run over N > 0 records ends its progress events with count N;
\* and every run counts from the beginning: its first progress event is the
\* end of the first batch, whatever the run before it published.
C11_ProgressMonotone ==
    \A r \in RunsInSight :
        LET pr == ProgressOf(r.pub)
        IN /\ \A k \in 1..(Len(pr) - 1) : pr[k].i <= pr[k + 1].i
           /\ \A k \in 1..Len(pr) : pr[k].total = r.total
           /\ (HasEvent(r.pub, "done") /\ r.total > 0) =>
                  (pr # <<>> /\ Last(pr).i = r.total)
           /\ pr # <<>> =>
                  pr[1].i = IF r.total < ProgressEvery THEN r.total
                            ELSE ProgressEvery

\* the second run over the large collection has ended with two progress
\* events
C11_Witness ==
    /\ syncFinished # <<>>
    /\ syncFinished[1].tid = 2
    /\ HasEvent(syncFinished[1].pub, "done")
    /\ Len(ProgressOf(syncFinished[1].pub)) = 2
    /\ Last(ProgressOf(syncFinished[1].pub)).i = BulkProducts

\* ---- C12
\* the indices up to n after which the loop reports: every 50th and the last
ReportedIndices(n, total) ==
    SelectSeq([j \in 1..n |-> j],
              LAMBDA j : j % ProgressEvery = 0 \/ j = total)

\* C12: the progress events of a run are, in order, those of the indices i
\* among the records upserted so far with i mod 50 = 0 or i = total, and no
\* others; and right after the event for i is published the worker's
\* connection holds no uncommitted upsert: records 1..i are committed.
C12_ProgressAtBatchEnds ==
    \A r \in RunsInSight :
        LET pr == ProgressOf(r.pub)
        IN /\ [k \in 1..Len(pr) |-> pr[k].i] = ReportedIndices(r.i - 1, r.total)
           /\ (pr # <<>> /\ r.i = Last(pr).i + 1) => r.txn = <<>>

\* the worker is past record 50 of 51: one progress event is out and the
\* upsert of record 51 is still to come
C12_Witness ==
    /\ syncThreads # <<>>
    /\ syncThreads[1].pc = "upsert"
    /\ Len(syncThreads[1].merged) = BulkProducts
    /\ syncThreads[1].i = BulkProducts
    /\ Len(ProgressOf(syncThreads[1].pub)) = 1

\* ---- C13
\* the loop of the run stopped at a record: its upsert raised
UpsertRaised(pc, i, total) == pc \in {"except", "finally", "ended"} /\ i <= total

C13_State ==
    /\ \A th \in Range(syncThreads) :
          (th.pc = "finally" /\ UpsertRaised(th.pc, th.i, Len(th.merged))) =>
              (Last(th.pub).typ = "error" /\ ~HasEvent(th.pub, "done"))
    /\ \A f \in Range(syncFinished) :
          UpsertRaised("ended", f.i, f.total) =>
              (Last(f.pub).typ = "error" /\ ~HasEvent(f.pub, "done"))

C13_Step ==
    /\ (\E t \in 1..Len(syncThreads) :
            /\ syncThreads[t].pc = "upsert"
            /\ Len(syncThreads') = Len(syncThreads)
            /\ syncThreads'[t].pc = "except") => db' = db
    /\ (\E t \in 1..Len(syncThreads) :
            UpsertRaised(syncThreads[t].pc, syncThreads[t].i,
                         Len(syncThreads[t].merged))) => db' = db

\* C13: a run in which the upsert of a record raised publishes an error
\* event last and no done event; from the raise to the end of the run the
\* committed store does not change, so what the run committed before stays
\* and the upserts made after its last commit are never committed.
C13_UpsertFailureKeepsCommitted == []C13_State /\ [][C13_Step]_vars

\* a run committed records 1..50 (supplier 1), upserted record 51 (supplier
\* 4) without committing, failed on record 52 and ended: the store holds the
\* update of supplier 1 and not that of supplier 4
C13_Witness ==
    /\ syncFinished # <<>>
    /\ Last(syncFinished[1].pub).typ = "error"
    /\ syncFinished[1].commits = 1
    /\ syncFinished[1].i = BulkProducts + 1
    /\ syncFinished[1].txn # <<>>
    /\ db[1].external_id = NULL
    /\ db[4].external_id = Some(9011)
    /\ syncFinished[1].txn[1][4].external_id = NULL

\* ---- C14
\* the records of the output that carry the id of order k
CarryingOrder(k) ==
    {j \in 1..Len(m_out[1]) : m_out[1][j].external_id = m_in.orders[k].id}

\* C14: the output holds one record per product, in order and with the
\* product's country, and every order is carried by some record of the
\* output, as the match of a product or as a record of its own.
C14_NoRecordDropped ==
    m_out # <<>> =>
       /\ Len(m_out[1]) >= Len(m_in.products)
       /\ \A j \in 1..Len(m_in.products) :
              m_out[1][j].country = m_in.products[j].country
       /\ \A k \in 1..Len(m_in.orders) : CarryingOrder(k) # {}

\* ---- C15
SameName(a, b) == Truthy(a) /\ Truthy(b) /\ Lower(a[1]) = Lower(b[1])

SameAccount(a, b) == Truthy(a) /\ a = b

\* order o shares neither account identifier nor name with any product
MatchesNoProduct(o) ==
    \A j \in 1..Len(m_in.products) :
        /\ ~SameAccount(m_in.products[j].account_id, o.account_id)
        /\ ~SameName(m_in.products[j].name, o.name)

\* C15: an order that matches no product is carried by exactly one record
\* of the output, which has the order's account identifier, name and id and
\* a null country.
C15_OrderOnlyOnce ==
    m_out # <<>> =>
       \A k \in 1..Len(m_in.orders) :
          MatchesNoProduct(m_in.orders[k]) =>
             /\ Cardinality(CarryingOrder(k)) = 1
             /\ \A j \in CarryingOrder(k) :
                    /\ m_out[1][j].account_id = m_in.orders[k].account_id
                    /\ m_out[1][j].name = m_in.orders[k].name
                    /\ m_out[1][j].country = NULL

\* ---- C16
\* C16: the record of a product carries the id of an order with the
\* product's account identifier when there is one, otherwise of an order
\* with the product's name ignoring case when there is one, otherwise no
\* order's id; its name and account identifier are the product's own when
\* present.
C16_MatchPriority ==
    m_out # <<>> =>
       \A j \in 1..Len(m_in.products) :
          LET p == m_in.products[j]
              e == m_out[1][j]
              byAcc == {k \in 1..Len(m_in.orders) :
                           SameAccount(p.account_id, m_in.orders[k].account_id)}
              byName == {k \in 1..Len(m_in.orders) :
                            SameName(p.name, m_in.orders[k].name)}
          IN /\ IF byAcc # {}
                THEN e.external_id \in {m_in.orders[k].id : k \in byAcc}
                ELSE IF byName # {}
                THEN e.external_id \in {m_in.orders[k].id : k \in byName}
                ELSE e.external_id = NULL
             /\ Truthy(p.name) => e.name = p.name
             /\ Truthy(p.account_id) => e.account_id = p.account_id

\* ---- C17
\* the events `evs` were published in this step by a SyncWorker
Published(evs) ==
    \E t \in 1..Len(syncThreads) :
        /\ t \in 1..Len(syncThreads')
        /\ syncThreads'[t].tid = syncThreads[t].tid
        /\ syncThreads'[t].pub = syncThreads[t].pub \o evs

NewEvents ==
    UNION {{SubSeq(th.pub, n, Len(th.pub)) : n \in 1..(Len(th.pub) + 1)} :
              th \in Range(syncThreads')}

C17_State ==
    /\ admitted = drains + Len(result_queue) + Len(gitThreads)
    /\ \A r \in RunsInSight :
          \A th \in Range(syncThreads) :
             r.tid = th.tid =>
                LET n == IF Len(progress_queue) < Len(r.pub)
                         THEN Len(progress_queue) ELSE Len(r.pub)
                IN SubSeq(progress_queue, Len(progress_queue) - n + 1,
                          Len(progress_queue))
                   = SubSeq(r.pub, Len(r.pub) - n + 1, Len(r.pub))

C17_Step ==
    /\ \A evs \in NewEvents :
          (evs # <<>> /\ Published(evs)) =>
              (progress_queue' = progress_queue \o evs /\ handled' = handled)
    /\ (progress_queue' # progress_queue \/ handled' # handled) =>
          \/ \E evs \in NewEvents :
                /\ evs # <<>> /\ Published(evs)
                /\ progress_queue' = progress_queue \o evs
                /\ handled' = handled
          \/ /\ progress_queue # <<>>
             /\ progress_queue' = <<>>
             /\ handled' = handled + Len(progress_queue)
             /\ panel' = PanelAfterAll(panel, progress_queue)
             /\ table_refreshes' = table_refreshes
                   + Cardinality({k \in 1..Len(progress_queue) :
                                     progress_queue[k].typ = "done"})
    /\ (result_queue' # result_queue \/ drains' # drains) =>
          \/ /\ Len(gitThreads') = Len(gitThreads) - 1
             /\ \E t \in 1..Len(gitThreads) :
                   /\ gitThreads' = RemoveAt(gitThreads, t)
                   /\ result_queue' = Append(result_queue,
                                             [full_log |-> gitThreads[t].full_log,
                                              rc |-> gitThreads[t].final_rc,
                                              refresh |-> gitThreads[t].refresh])
             /\ drains' = drains
          \/ /\ result_queue # <<>>
             /\ result_queue' = Tail(result_queue)
             /\ drains' = drains + 1
             /\ drained' = <<Head(result_queue)>>
             /\ console' = <<"transcript", Head(result_queue).full_log>>

\* C17: what a SyncWorker publishes enters the queue at its tail, in publish
\* order; the queue loses events only to a poll, which handles all of them
\* once, in queue order; in the git manager every admitted task is running,
\* has its one outcome in the queue, or had it consumed, and a poll consumes
\* the outcome at the head once.
C17_EventsHandledOnceInOrder == []C17_State /\ [][C17_Step]_vars

\* a poll has handled events and the second run has published more
C17_Witness ==
    /\ handled >= 3
    /\ Len(progress_queue) >= 2
    /\ syncs = 2
    /\ panel = "progress"

\* ---- C18
\* C18: the UI thread never runs an external process itself; only worker
\* threads do.
C18_ControllerNeverBlocks == UiProcessRuns = 0

\* ---- C19
\* the step is a call of run_git_chain with an invalid working directory
InvalidPathRequest ==
    \E commands \in Chains, refresh \in BOOLEAN :
        RunGitChain(commands, FALSE, refresh)

\* in this step safe_run returned SpawnFailure to worker t
SpawnFailed(t) ==
    /\ t \in 1..Len(gitThreads)
    /\ gitThreads[t].pc = "run"
    /\ Len(gitThreads') = Len(gitThreads)
    /\ gitThreads'[t].full_log =
          gitThreads[t].full_log
             \o LogEntry(gitThreads[t].commands[gitThreads[t].i],
                         SpawnFailure[1], SpawnFailure[2])
    /\ gitThreads'[t].ran =
          Append(gitThreads[t].ran, <<gitThreads[t].i, SpawnFailure[3]>>)

\* C19 as stated: on an invalid directory and on a spawn failure alike the
\* failure is written at once, no task runs for the request and the flag,
\* the queue and the timer are those of an idle guard left unchanged.
C19_Original ==
    [][/\ InvalidPathRequest =>
             (RequestRejected /\ console' = MsgInvalidPath
                /\ pollTimers' = pollTimers)
       /\ (\E t \in 1..Len(gitThreads) : SpawnFailed(t)) =>
             (~running_task /\ pollTimers = 0 /\ console' # console)]_vars

\* C19 amended: a request with an invalid working directory writes the
\* invalid-path error at once, starts no worker and leaves the flag, the
\* queue, the timer and the status unchanged; a process that cannot be
\* spawned fails inside the worker of an admitted task, with the guard
\* engaged: it is that step's result with return code 1, it ends the chain,
\* and nothing is written or queued until the worker puts its outcome.
C19_InfrastructureFailure ==
    [][/\ InvalidPathRequest =>
             (RequestRejected /\ console' = MsgInvalidPath
                /\ pollTimers' = pollTimers /\ status_left' = status_left)
       /\ \A t \in 1..Len(gitThreads) :
             SpawnFailed(t) =>
                /\ running_task /\ running_task'
                /\ gitThreads'[t].pc = "put"
                /\ gitThreads'[t].final_rc = 1
                /\ UNCHANGED <<result_queue, console, status_left, pollTimers>>]_vars

\* the first command of a two-command chain could not be spawned and the
\* worker is about to put its outcome; meanwhile a request with an invalid
\* directory was refused
C19_Witness ==
    /\ Len(gitThreads) = 1
    /\ gitThreads[1].pc = "put"
    /\ Len(gitThreads[1].commands) = 2
    /\ gitThreads[1].full_log = LogEntry(1, SpawnFailure[1], SpawnFailure[2])
    /\ running_task
    /\ console = MsgInvalidPath

\* ---- C20
\* log is a transcript of the steps `ran` of the chain `commands`: one echo
\* per executed step, in order, each followed by at most that step's stdout
\* and then its stderr, and nothing else
IsTranscript(log, commands, ran) ==
    /\ SelectSeq(log, LAMBDA e : e[1] = "$")
          = [k \in 1..Len(ran) |-> <<"$", commands[ran[k][1]]>>]
    /\ \A k \in 1..Len(ran) : ran[k][1] = k
    /\ \A k \in 1..Len(log) :
          /\ log[k][1] \in {"$", "out", "err"}
          /\ log[k][1] = "out" => (k > 1 /\ log[k - 1] = <<"$", log[k][2]>>)
          /\ log[k][1] = "err" =>
                (k > 1 /\ log[k - 1] \in {<<"$", log[k][2]>>, <<"out", log[k][2]>>})

\* C20: the transcript a worker builds, and the one queued and shown for the
\* task that ended last, holds in execution order one echoed command line
\* per executed step followed by that step's output; the failing step is the
\* last entry and no later command of the chain has one.
C20_TranscriptOfExecutedSteps ==
    /\ \A t \in 1..Len(gitThreads) :
          IsTranscript(gitThreads[t].full_log, gitThreads[t].commands,
                       gitThreads[t].ran)
    /\ finished # <<>> =>
          LET f == finished[1]
              log == IF result_queue # <<>> THEN Last(result_queue).full_log
                     ELSE drained[1].full_log
          IN /\ IsTranscript(log, f.commands, f.ran)
             /\ f.final_rc # 0 =>
                    /\ f.ran[Len(f.ran)][2] # 0
                    /\ \A k \in 1..Len(log) : log[k][2] <= Len(f.ran)
    /\ (drained # <<>> /\ console[1] = "transcript") =>
          console[2] = drained[1].full_log

\* the transcript on the console is that of a two-command chain whose
\* second command failed after writing to stdout and stderr
C20_Witness ==
    /\ console = <<"transcript",
                   <<<<"$", 1>>, <<"out", 1>>, <<"$", 2>>, <<"out", 2>>,
                     <<"err", 2>>>>>>
    /\ status_left = "Done (Error)"
    /\ finished # <<>>
    /\ Len(finished[1].commands) = 2

---------------------------------------------------------------------------
\* C21: parse_status_porcelain returns one record per non-blank line, in
\* order: a "??" line is Untracked, a rename line "old -> new" gives the new
\* path only, every other line gives the rest of the line as path and the kind
\* of the index code when that is non-blank, else of the worktree code; the
\* four example lines give (a, Modified), (b, Added), (c, Untracked),
\* (n, Renamed).

NonBlankLines(text) ==
    SelectSeq(SplitLines(text), LAMBDA l : Strip(l) # <<>>)

IsRenameLine(line) ==
    /\ "R" \in {line[1], line[2]}
    /\ Arrows(SubSeq(line, 4, Len(line))) # {}

RecordAsDescribed(line, item) ==
    LET rest == SubSeq(line, 4, Len(line))
    IN IF line[1] = "?" /\ line[2] = "?"
       THEN item.status = "Untracked" /\ item.path = Strip(rest)
       ELSE IF IsRenameLine(line)
       THEN item.status = "Renamed" /\ item.path = Strip(AfterArrow(rest))
       ELSE /\ item.path = Strip(rest)
            /\ line[1] # " " => item.status = MappingGet(line[1])
            /\ (line[1] = " " /\ line[2] # " ")
                    => item.status = MappingGet(line[2])

C21_RecordPerLine ==
    (app = "porcelain" /\ f_out # <<>> /\ ~f_out[1].raised) =>
        LET lines == NonBlankLines(f_in)
            items == f_out[1].items
        IN /\ Len(items) = Len(lines)
           /\ \A k \in 1..Len(lines) : RecordAsDescribed(lines[k], items[k])
           /\ f_in = ExampleStatus =>
                [k \in 1..Len(items) |-> <<items[k].path, items[k].status>>]
                    = << <<(<<"a">>), "Modified">>, <<(<<"b">>), "Added">>,
                         <<(<<"c">>), "Untracked">>, <<(<<"n">>), "Renamed">> >>

\* C22: parse_status_porcelain never fails, whatever the text: unknown status
\* codes and lines shorter than the two-character prefix included; an unknown
\* code is handed through as the kind.

C22_NeverFails ==
    (app = "porcelain" /\ f_out # <<>>) =>
        /\ ~f_out[1].raised
        /\ \A k \in 1..Len(f_out[1].items) :
               LET item == f_out[1].items[k]
               IN (item.index = "X" /\ item.status # "Renamed")
                      => item.status = "X"

\* C23: parse_ahead_behind never fails; each count is the integer that
\* follows the word "ahead" (resp. "behind") inside the first bracketed clause
\* of the line, and 0 when there is no bracket, no such word, or no integer
\* after it; "[ahead 2, behind 1]" gives (2, 1) and "## main" gives (0, 0).

\* the text between the first "[" and the next "]", if the line has both
FirstClause(s) ==
    LET opens == {i \in 1..Len(s) : s[i] = "["}
        closes == {j \in 1..Len(s) : s[j] = "]" /\ opens # {}
                                      /\ j > SetMin(opens)}
    IN IF opens = {} \/ closes = {} THEN NULL
       ELSE Some(SubSeq(s, SetMin(opens) + 1, SetMin(closes) - 1))

\* the integers that follow the word inside the clause
CountsIn(clause, word) ==
    {IntOf(Words(q)[2]) :
        q \in {r \in Range(SplitComma(clause)) :
                 /\ StartsWith(Strip(r), word)
                 /\ Len(Words(r)) >= 2
                 /\ IsInt(Words(r)[2])}}

CountAsDescribed(s, word, v) ==
    IF FirstClause(s) = NULL \/ CountsIn(FirstClause(s)[1], word) = {}
    THEN v = 0
    ELSE v \in CountsIn(FirstClause(s)[1], word)

C23_AheadBehind ==
    (app = "aheadbehind" /\ f_out # <<>>) =>
        /\ CountAsDescribed(f_in, "ahead", f_out[1][1])
        /\ CountAsDescribed(f_in, "behind", f_out[1][2])
        /\ f_in = ExampleAheadBehind => f_out[1] = <<2, 1>>
        /\ f_in = ExampleNoBracket => f_out[1] = <<0, 0>>

\* C24: query_page(p, s) returns exactly min(s, total - p*s) rows for every
\* page p with p*s < total, where total, which it returns too, is the number of
\* rows that satisfy the filter.

RowsSatisfying(q) == {k \in 1..Len(store) : Matches(store[k], q)}

C24_PageLength ==
    app = "table" =>
        LET r == Last(shown)
            p == r.asked.page_index
            size == r.asked.page_size
        IN /\ r.total = Cardinality(RowsSatisfying(r.asked.q))
           /\ p * size < r.total =>
                Len(r.rows) = IF size < r.total - p * size THEN size
                              ELSE r.total - p * size

C24_Witness ==
    /\ app = "table"
    /\ Last(shown).asked.q = "a"
    /\ Last(shown).asked.page_index = 0
    /\ Last(shown).total = 8
    /\ Len(Last(shown).rows) = 8
    /\ Len(store) = MaxTableRows

\* C25: for one filter and sort over an unchanged store, no row is returned on
\* both of two consecutive pages p and p + 1, ties in the sort column included.

IdsOf(rows) == {rows[k].id : k \in 1..Len(rows)}

ConsecutivePages ==
    /\ app = "table"
    /\ Len(shown) = 2
    /\ shown[1].asked.page_index - shown[2].asked.page_index \in {1, -1}

C26_Step ==
    /\ Len(store') >= Len(store)
    /\ IdsOf(store) \subseteq IdsOf(store')

C26_NoRowDeleted == [][C26_Step]_vars

\* a sync run has updated row 2 and an edit has changed row 1
C26_Witness ==
    /\ app = "table"
    /\ Len(store) = MaxTableRows
    /\ store[2].name # TableStore(MaxTableRows)[2].name
    /\ store[2].country = NULL
    /\ store[1].updated_at = 1
    /\ edits = 2

\* C30: after every refresh_table 0 <= page_index <= max((total - 1) div
\* page_size, 0); Prev never goes below 0, Next on the last page stays there,
\* and applying or clearing the filter, choosing a page size or a sort put the
\* index back to 0.

LastPageOf(total, size) ==
    IF total = 0 THEN 0 ELSE (total - 1) \div size

C30_State ==
    app = "table" =>
        /\ view.page_index >= 0
        /\ view.page_index <= LastPageOf(Last(shown).total, view.page_size)
        /\ Last(shown).asked.page_index = view.page_index

C30_Step ==
    /\ view'.page_index >= 0 \/ ~prev_page
    /\ \/ view'.page_index = view.page_index
       \/ ~(/\ view.page_index
                 = LastPageOf(Cardinality(RowsSatisfying(view.q)),
                              view.page_size)
            /\ next_page)
    /\ \/ view'.page_index = 0
       \/ ~(\/ apply_filter
            \/ clear_filter
            \/ \E size \in PAGE_SIZE_OPTIONS : set_page_size(size)
            \/ \E field \in SortFields : toggle_sort(field))

C30_PageIndexInRange == []C30_State /\ [][C30_Step]_vars

\* Next was pressed on the last page of several
C30_Witness ==
    /\ app = "table"
    /\ view.page_index = 1
    /\ Len(shown) = 1
    /\ Last(shown).total = MaxTableRows
    /\ view.page_size = 10
    /\ view.sort_col = "external_id"

\* C27: the should-refresh flag of a request travels unchanged with the
\* task's outcome; when the outcome is drained the controller refreshes the
\* repository views if and only if the flag is true, whether the task ended ok
\* or in error, and with the guard released and the transcript logged.

C27_Step ==
    /\ admitted' = admitted + 1 =>
         \A commands \in Chains, refresh \in BOOLEAN :
             RunGitChain(commands, TRUE, refresh)
                 => Last(gitThreads').refresh = refresh
    /\ Len(result_queue') > Len(result_queue) =>
         /\ Len(gitThreads) = 1
         /\ Last(result_queue').refresh = gitThreads[1].refresh
    /\ drains' = drains + 1 =>
         /\ result_queue # <<>>
         /\ refreshes' = refreshes + 1 <=> Head(result_queue).refresh
         /\ refreshes' = refreshes <=> ~Head(result_queue).refresh
         /\ running_task' = FALSE
         /\ console' = <<"transcript", Head(result_queue).full_log>>

C27_RefreshIffFlag == [][C27_Step]_vars

\* a task that failed and asked for a refresh has been drained, and one that
\* did not ask has been drained without one
C27_Witness ==
    /\ app = "git"
    /\ drains = 2
    /\ refreshes = 1
    /\ drained # <<>>
    /\ drained[1].rc # 0
    /\ drained[1].refresh

\* C29: git manager: in every state between controller callbacks the result
\* queue holds at most one outcome, and exactly one _poll_results timer is
\* pending while running_task is true and none while it is false.

C29_OneOutcomeOneTimer ==
    app = "git" =>
        /\ Len(result_queue) <= 1
        /\ pollTimers = IF running_task THEN 1 ELSE 0

\* the second task's outcome waits for the one pending timer
C29_Witness ==
    /\ app = "git"
    /\ drains = 1
    /\ running_task
    /\ Len(result_queue) = 1
    /\ pollTimers = 1

\* C28: when a supplier that has a row comes back from a later sync with
\* another account identifier, the upsert leaves the original row as it was
\* and adds a second row for the supplier, with the new identifier.

\* rows of the record's supplier stored under another account identifier
RowsUnderOldAccount(rows, s) ==
    {k \in 1..Len(rows) :
        /\ rows[k].name = s.name
        /\ rows[k].external_id = s.external_id
        /\ Truthy(rows[k].account_id)
        /\ rows[k].account_id # s.account_id}

AccountChanged(rows, s) ==
    /\ Truthy(s.account_id)
    /\ RowsUnderOldAccount(rows, s) # {}
    /\ SelectByAccount(rows, s.account_id) = {}

C28_AccountChangeAddsRow ==
    (app = "upsert" /\ Len(u_res) >= 1 /\ AccountChanged(u_rows[1], u_rec)) =>
        /\ Len(u_rows[2]) = Len(u_rows[1]) + 1
        /\ SubSeq(u_rows[2], 1, Len(u_rows[1])) = u_rows[1]
        /\ Last(u_rows[2]).account_id = u_rec.account_id
        /\ Last(u_rows[2]).name = u_rec.name

TypeOK == app \in {"git", "sync", "upsert", "merge", "porcelain",
                   "aheadbehind", "table"}
====
